---- MODULE Spec2Model ----
(***************************************************************************)
(* Memorium game-dev assistant.                                            *)
(*                                                                         *)
(* Two state machines share this module:                                   *)
(*   ApiSpec  the /api/generate request handlers (the Gemini handler of    *)
(*            src/api/generate.ts, the OpenAI handler of                   *)
(*            src/unnamed/part_008 and the gateway handler of              *)
(*            src/unnamed/part_009), one request at a time;                *)
(*   Spec     the React client of src/App.tsx with either service layer:   *)
(*            the fetch-based one of src/api-server.js or the SDK-based    *)
(*            one of src/unnamed/part_006.                                 *)
(*                                                                         *)
(* Text is a sequence of symbols.  The symbols "{" and "}" are the brace   *)
(* characters wherever they occur (prose, JSON structure, inside a JSON    *)
(* string); every other symbol stands for a run of non-brace characters    *)
(* (the symbol "text:" is the member key "text" with its quotes and colon).*)
(* Request strings whose content never matters are kept as their length    *)
(* and their length after trim().                                          *)
(***************************************************************************)
EXTENDS Integers, Sequences, FiniteSets, TLC

VARIABLES
    \* ---- /api/generate handlers
    variant,        \* which handler file serves the request
    apiKeySet,      \* the API-key environment variable is set
    request,        \* the inbound HTTP request
    provider,       \* what the external provider does when called
    response,       \* the HTTP response, NoResponse while pending
    providerCalls,  \* number of provider calls made for this request
    sent,           \* the JSON sections of the prompt composed for the provider
    \* ---- React client (useState of App)
    service,        \* which services/geminiService the client is built with
    projectBrief,
    codex,
    iterations,
    tasks,
    storyNotes,
    characters,
    messages,
    isProcessing,
    generatingCharId, \* id of the character whose art is awaited, <<>> for null
    \* ---- client run-time
    pending,        \* backend operations awaiting their promise
    now,            \* Date.now()
    opCount,        \* operations started so far; gives fresh ids
    crashed,        \* a render threw: React unmounted the tree
    executed        \* history: the onToolCall and character-art runs, with what each gave

apiVars == <<variant, apiKeySet, request, provider, response, providerCalls, sent>>

clientVars ==
    <<service, projectBrief, codex, iterations, tasks, storyNotes, characters,
      messages, isProcessing, generatingCharId, pending, now, opCount, crashed,
      executed>>

vars == <<apiVars, clientVars>>

-----------------------------------------------------------------------------
(* Program constants                                                       *)

MAX_PROMPT_LENGTH == 2000
MAX_MESSAGE_CHARS == 6000
MAX_HISTORY_ITEMS == 40
MAX_CONTEXT_CHARS == 20000
MAX_CHANGE_REQUEST_CHARS == 4000
MAX_BRIEF_JSON_CHARS == 20000
MAX_CODEX_JSON_CHARS == 40000
GEMINI_HISTORY_WINDOW == 10
MAX_CONTEXT_JSON_CHARS == 20000

-----------------------------------------------------------------------------
(* JavaScript values                                                       *)

Undefined == [t |-> "undefined"]
JsNull == [t |-> "null"]
JsNumber == [t |-> "number"]
JsTrue == [t |-> "boolean"]

\* a request string: its length and its length after trim()
Text(len, tlen) == [t |-> "string", len |-> len, tlen |-> tlen]

\* a JSON string value with its characters
Str(chars) == [t |-> "str", chars |-> chars]

Member(k, v) == [k |-> k, v |-> v]
Obj(members) == [t |-> "object", members |-> members]
Arr(items) == [t |-> "array", items |-> items]

\* property access v.k ; undefined when v has no such member
RECURSIVE Lookup(_, _, _)
Lookup(members, k, i) ==
    IF i > Len(members) THEN Undefined
    ELSE IF members[i].k = k THEN members[i].v
    ELSE Lookup(members, k, i + 1)

Get(v, k) == IF v.t = "object" THEN Lookup(v.members, k, 1) ELSE Undefined

Has(v, k) == v.t = "object" /\ \E i \in 1..Len(v.members) : v.members[i].k = k

\* JavaScript truthiness (!!v)
Truthy(v) ==
    CASE v.t = "undefined" -> FALSE
      [] v.t = "null" -> FALSE
      [] v.t = "string" -> v.len > 0
      [] v.t = "str" -> Len(v.chars) > 0
      [] OTHER -> TRUE

isRecord(v) == Truthy(v) /\ v.t = "object"

asString(v) == IF v.t \in {"string", "str"} THEN v ELSE JsNull

\* s.length and s.trim().length of a string value
Length(s) == IF s.t = "string" THEN s.len ELSE Len(s.chars)
TrimmedLength(s) == IF s.t = "string" THEN s.tlen ELSE Len(s.chars)

\* JSON.stringify(v).length
RECURSIVE JsonLength(_)
RECURSIVE MembersLength(_, _)
RECURSIVE ItemsLength(_, _)

MembersLength(members, i) ==
    IF i > Len(members) THEN 0
    ELSE (IF i > 1 THEN 1 ELSE 0) + Len(members[i].k) + 3
         + JsonLength(members[i].v) + MembersLength(members, i + 1)

ItemsLength(items, i) ==
    IF i > Len(items) THEN 0
    ELSE (IF i > 1 THEN 1 ELSE 0) + JsonLength(items[i]) + ItemsLength(items, i + 1)

JsonLength(v) ==
    CASE v.t = "object" -> 2 + MembersLength(v.members, 1)
      [] v.t = "array" -> 2 + ItemsLength(v.items, 1)
      [] v.t \in {"string", "str"} -> 2 + Length(v)
      [] v.t = "number" -> 1
      [] OTHER -> 4

-----------------------------------------------------------------------------
(* JSON text                                                               *)

RECURSIVE Stringify(_)
RECURSIVE StringifyMembers(_, _)
RECURSIVE StringifyItems(_, _)

StringifyMembers(members, i) ==
    IF i > Len(members) THEN <<>>
    ELSE (IF i > 1 THEN <<",">> ELSE <<>>)
         \o <<members[i].k \o ":">>
         \o Stringify(members[i].v)
         \o StringifyMembers(members, i + 1)

StringifyItems(items, i) ==
    IF i > Len(items) THEN <<>>
    ELSE (IF i > 1 THEN <<",">> ELSE <<>>)
         \o Stringify(items[i])
         \o StringifyItems(items, i + 1)

Stringify(v) ==
    CASE v.t = "object" -> <<"{">> \o StringifyMembers(v.members, 1) \o <<"}">>
      [] v.t = "array" -> <<"[">> \o StringifyItems(v.items, 1) \o <<"]">>
      [] v.t = "str" -> <<"\"">> \o v.chars \o <<"\"">>
      [] v.t = "number" -> <<"1">>
      [] v.t = "boolean" -> <<"true">>
      [] OTHER -> <<"null">>

\* JSON.parse: the value whose JSON text is `text`, looked up in a table of
\* the JSON texts of the values in scope; any other text is a SyntaxError
JsonParseIn(table, text) ==
    LET hits == {e \in table : e.text = text}
    IN  IF hits = {} THEN [ok |-> FALSE, value |-> Undefined]
        ELSE [ok |-> TRUE, value |-> (CHOOSE e \in hits : TRUE).value]

\* String.prototype.trim on a symbol sequence (" " is white space)
RECURSIVE TrimLeft(_)
TrimLeft(s) == IF s # <<>> /\ Head(s) = " " THEN TrimLeft(Tail(s)) ELSE s

RECURSIVE TrimRight(_)
TrimRight(s) ==
    IF s # <<>> /\ s[Len(s)] = " " THEN TrimRight(SubSeq(s, 1, Len(s) - 1)) ELSE s

TrimText(s) == TrimRight(TrimLeft(s))

\* text.indexOf("{"), 0 when absent (positions are 1-based here)
RECURSIVE IndexOfBrace(_, _)
IndexOfBrace(text, i) ==
    IF i > Len(text) THEN 0
    ELSE IF text[i] = "{" THEN i
    ELSE IndexOfBrace(text, i + 1)

NoText == <<"<null>">>

\* the for loop of extractJsonObject / extractFirstJsonObject
RECURSIVE ScanBraces(_, _, _, _)
ScanBraces(text, firstBrace, i, depth) ==
    IF i > Len(text) THEN NoText
    ELSE LET d == IF text[i] = "{" THEN depth + 1
                  ELSE IF text[i] = "}" THEN depth - 1
                  ELSE depth
         IN  IF d = 0 THEN SubSeq(text, firstBrace, i)
             ELSE ScanBraces(text, firstBrace, i + 1, d)

extractJsonObject(text) ==
    LET firstBrace == IndexOfBrace(text, 1)
    IN  IF firstBrace = 0 THEN NoText
        ELSE ScanBraces(text, firstBrace, firstBrace, 0)

\* sanitiseToolCalls: the loop body decides whether entry t is kept
KeepsToolCall(t) ==
    /\ isRecord(t)
    /\ Truthy(asString(Get(t, "name")))
    /\ isRecord(Get(t, "args"))

CleanToolCall(t) == Obj(<<Member("name", asString(Get(t, "name"))), Member("args", Get(t, "args"))>>)

\* a sanitiser that stops at the first malformed entry
RECURSIVE SanitiseUntilBad(_, _)
SanitiseUntilBad(items, i) ==
    IF i > Len(items) \/ ~KeepsToolCall(items[i]) THEN <<>>
    ELSE <<CleanToolCall(items[i])>> \o SanitiseUntilBad(items, i + 1)

\* a sanitiser that passes over the entry that follows each one it keeps
RECURSIVE SanitiseSkipping(_, _)
SanitiseSkipping(items, i) ==
    IF i > Len(items) THEN <<>>
    ELSE IF KeepsToolCall(items[i])
         THEN <<CleanToolCall(items[i])>> \o SanitiseSkipping(items, i + 2)
    ELSE SanitiseSkipping(items, i + 1)

RECURSIVE SanitiseFrom(_, _)
SanitiseFrom(items, i) ==
    IF i > Len(items) THEN <<>>
    ELSE (IF KeepsToolCall(items[i]) THEN <<CleanToolCall(items[i])>> ELSE <<>>)
         \o SanitiseFrom(items, i + 1)

sanitiseToolCalls(toolCalls) ==
    IF toolCalls.t # "array" THEN <<>> ELSE SanitiseFrom(toolCalls.items, 1)

-----------------------------------------------------------------------------
(* Bounds of the checked universe                                          *)

MaxStrLen == 2
MaxToolCalls == 3

(* The JSON values the provider is taken to write                          *)

Chars == {"a", "{", "}"}
StrContents == UNION {[1..n -> Chars] : n \in 0..MaxStrLen}

ValidArgs == Obj(<<Member("title", Str(<<"X">>)), Member("status", Str(<<"TODO">>))>>)
EmptyArgs == Obj(<<>>)
ToolCall(name, args) == Obj(<<Member("name", name), Member("args", args)>>)
AddTaskCall == ToolCall(Str(<<"add_task">>), ValidArgs)
DropDatabaseCall == ToolCall(Str(<<"drop_database">>), EmptyArgs)
BadShape == Obj(<<Member("badshape", JsTrue)>>)
ExtraFieldsCall ==
    Obj(<<Member("id", JsNumber), Member("name", Str(<<"add_story_note">>)),
          Member("args", EmptyArgs), Member("type", Str(<<"function">>))>>)

ToolEntries ==
    { AddTaskCall, DropDatabaseCall, ExtraFieldsCall, BadShape, JsNumber,
      ToolCall(Str(<<>>), EmptyArgs),
      ToolCall(JsNumber, EmptyArgs),
      ToolCall(Str(<<"add_task">>), Arr(<<>>)),
      Obj(<<Member("name", Str(<<"add_task">>))>>) }

ToolCallLists == UNION {[1..n -> ToolEntries] : n \in 0..MaxToolCalls}

ChatObject(text, toolCalls) == Obj(<<Member("text", text), Member("toolCalls", toolCalls)>>)

\* objects whose text varies (braces included) and whose tool calls are few
TextObjects ==
    {ChatObject(Str(c), Arr(l)) : c \in StrContents, l \in {<<>>, <<AddTaskCall>>}}

\* objects whose tool-call list varies
ToolObjects == {ChatObject(Str(<<"a">>), Arr(l)) : l \in ToolCallLists}

\* objects that are records of another shape, and values that are no record
OddValues ==
    { Obj(<<Member("toolCalls", Arr(<<AddTaskCall>>))>>),
      ChatObject(JsNumber, Arr(<<AddTaskCall>>)),
      ChatObject(Str(<<"a">>), JsNull),
      ChatObject(Str(<<"a">>), AddTaskCall),
      Obj(<<Member("text", Str(<<"a">>))>>),
      Arr(<<AddTaskCall>>), Arr(<<>>), Str(<<"a">>), Str(<<"{", "}">>),
      JsNull, JsNumber, JsTrue, EmptyArgs, ValidArgs }

Element(id, category) ==
    Obj(<<Member("id", Str(<<id>>)), Member("category", Str(<<category>>)),
          Member("title", Str(<<"a">>)), Member("content", Str(<<"a">>))>>)

ElementsObjects ==
    { Obj(<<Member("elements", Arr(<<>>))>>),
      Obj(<<Member("elements", Arr(<<Element("e1", "premise")>>))>>),
      Obj(<<Member("elements", Str(<<"a">>))>>),
      Obj(<<Member("items", Arr(<<>>))>>) }

JsonUniverse == TextObjects \cup ToolObjects \cup OddValues \cup ToolEntries \cup ElementsObjects

JsonTable == {[text |-> Stringify(v), value |-> v] : v \in JsonUniverse}

\* JSON.parse skips white space around the value
JsonParse(text) == JsonParseIn(JsonTable, TrimText(text))

\* prose the provider may put around the JSON object
ProseBefore == {<<>>, <<"a">>, <<" ", "a", " ">>, <<"a", "{", "a", "}", "a">>}
ProseAfter == {<<>>, <<"a">>, <<" ">>, <<"a", "}">>}

\* a provider output: the text, and how it was written (the JSON value in it and
\* the prose around it; Undefined when the text holds no JSON value)
Output(before, object, after) ==
    [text |-> before \o (IF object.t = "undefined" THEN <<>> ELSE Stringify(object)) \o after,
     object |-> object, before |-> before, after |-> after]

WrappedOutputs ==
    {Output(b, v, a) : v \in TextObjects, b \in ProseBefore, a \in ProseAfter}

DirectOutputs ==
    {Output(<<>>, v, <<>>) : v \in ToolObjects \cup OddValues \cup ElementsObjects}

PlainOutputs ==
    {Output(b, Undefined, <<>>) :
        b \in {<<>>, <<"a">>, <<"a", "{", "a">>, <<"}", "a", "{">>, <<"{", "a", "}">>}}

ProviderOutputs == WrappedOutputs \cup DirectOutputs \cup PlainOutputs

-----------------------------------------------------------------------------
(* Responses                                                               *)

NoResponse == [status |-> 0, body |-> [pending |-> TRUE]]

json(status, body) == [status |-> status, body |-> body]
ok(body) == json(200, body)
badRequest(error) == json(400, [error |-> error])
badRequestDetails(error, details) == json(400, [error |-> error, details |-> details])
serverError(error) == json(500, [error |-> error])
serverErrorDetails(error, details) == json(500, [error |-> error, details |-> details])

\* what a handler run amounts to: its response and the provider calls it made
Outcome(resp, calls) == [response |-> resp, calls |-> calls]

AllowedActions == {"chat", "compile_bones", "apply_iteration", "generate_image"}

\* the action as the handlers compare it: its text when a string, "" otherwise
ActionName(action) ==
    IF action.t = "str" /\ Len(action.chars) = 1 THEN action.chars[1] ELSE ""

\* the request body once parsed: action and payload of `const { action, payload } = body`
BodyAction(body) == Get(body, "action")
BodyPayload(body) == Get(body, "payload")

Unparseable == [t |-> "unparseable"]

-----------------------------------------------------------------------------
(* src/unnamed/part_008, lines 410-850: the OpenAI handler                 *)

\* a normaliser that fails the request when the output is not a JSON object
NormaliseChatStrict(outputText) ==
    LET raw == TrimText(outputText)
        extracted == extractJsonObject(raw)
        jsonText == IF extracted = NoText THEN raw ELSE extracted
        parsed == JsonParse(jsonText)
    IN  IF ~parsed.ok \/ ~isRecord(parsed.value) THEN serverError("AI generation failed")
        ELSE ok([text |-> IF Get(parsed.value, "text").t = "str"
                          THEN Get(parsed.value, "text").chars ELSE raw,
                 toolCalls |-> sanitiseToolCalls(Get(parsed.value, "toolCalls"))])

\* the chat branch after the provider answered: lines 825-842
NormaliseChatOpenAI(outputText) ==
    LET raw == TrimText(outputText)
        extracted == extractJsonObject(raw)
        jsonText == IF extracted = NoText THEN raw ELSE extracted
        parsed == JsonParse(jsonText)
    IN  IF ~parsed.ok THEN ok([text |-> raw, toolCalls |-> <<>>])
        ELSE IF ~isRecord(parsed.value) THEN ok([text |-> raw, toolCalls |-> <<>>])
        ELSE ok([text |-> IF Get(parsed.value, "text").t = "str"
                          THEN Get(parsed.value, "text").chars ELSE raw,
                 toolCalls |-> sanitiseToolCalls(Get(parsed.value, "toolCalls"))])

\* compile_bones / apply_iteration after the provider answered: lines 675-686, 744-755
NormaliseElementsOpenAI(outputText) ==
    LET text == TrimText(outputText)
        extracted == extractJsonObject(text)
        jsonText == IF extracted = NoText THEN text ELSE extracted
        parsed == JsonParse(jsonText)
    IN  IF ~parsed.ok THEN serverError("Model did not return valid JSON")
        ELSE IF ~isRecord(parsed.value) \/ ~Has(parsed.value, "elements")
             THEN serverErrorDetails("Model returned invalid structure", "Missing elements")
        ELSE ok([elements |-> Get(parsed.value, "elements")])

GenerateImageOpenAI(payload, prov) ==
    LET prompt == asString(Get(payload, "prompt"))
    IN  IF ~isRecord(payload) THEN Outcome(badRequest("Invalid payload"), 0)
        ELSE IF ~Truthy(prompt) \/ TrimmedLength(prompt) = 0
             THEN Outcome(badRequest("prompt must be a non-empty string"), 0)
        \* the prompt is clamped to MAX_MESSAGE_CHARS, line 606
        ELSE IF prov.fails THEN Outcome(serverError("Image generation failed"), 1)
        ELSE IF ~prov.image
             THEN Outcome(serverErrorDetails("Image generation failed", "No image data returned"), 1)
        ELSE Outcome(ok([imageUri |-> "data:image/png;base64"]), 1)

CompileBonesOpenAI(payload, prov) ==
    IF ~isRecord(payload) THEN Outcome(badRequest("Invalid payload"), 0)
    \* briefJson is never empty: JSON.stringify(brief ?? null), line 644
    ELSE IF prov.fails THEN Outcome(serverError("AI generation failed"), 1)
    ELSE Outcome(NormaliseElementsOpenAI(prov.text), 1)

ApplyIterationOpenAI(payload, prov) ==
    LET changeRequest == asString(Get(payload, "changeRequest"))
    IN  IF ~isRecord(payload) THEN Outcome(badRequest("Invalid payload"), 0)
        ELSE IF ~Truthy(changeRequest) \/ TrimmedLength(changeRequest) = 0
             THEN Outcome(badRequest("changeRequest must be a non-empty string"), 0)
        ELSE IF Length(changeRequest) > MAX_CHANGE_REQUEST_CHARS
             THEN Outcome(badRequest("changeRequest too long"), 0)
        ELSE IF prov.fails THEN Outcome(serverError("AI generation failed"), 1)
        ELSE Outcome(NormaliseElementsOpenAI(prov.text), 1)

ChatOpenAI(payload, prov) ==
    LET message == asString(Get(payload, "message"))
    IN  IF ~isRecord(payload) THEN Outcome(badRequest("Invalid payload"), 0)
        ELSE IF ~Truthy(message) \/ TrimmedLength(message) = 0
             THEN Outcome(badRequest("message must be a non-empty string"), 0)
        ELSE IF Length(message) > MAX_MESSAGE_CHARS
             THEN Outcome(badRequest("message too long"), 0)
        ELSE IF prov.fails THEN Outcome(serverError("AI generation failed"), 1)
        ELSE Outcome(NormaliseChatOpenAI(prov.text), 1)

HandlerOpenAI(req, keySet, prov) ==
    LET body == req.body
        action == BodyAction(body)
        payload == BodyPayload(body)
        name == ActionName(action)
    IN  IF ~keySet
        THEN Outcome(serverErrorDetails("Server misconfigured", "OPENAI_API_KEY is not set"), 0)
        ELSE IF req.method # "POST" THEN Outcome(json(405, [error |-> "Method not allowed"]), 0)
        ELSE IF body.t = "unparseable" \/ ~Truthy(body)
             THEN Outcome(badRequest("Invalid JSON body"), 0)
        ELSE IF action.t # "str" THEN Outcome(badRequest("Missing or invalid action"), 0)
        ELSE IF name \notin AllowedActions
             THEN Outcome(badRequestDetails("Unsupported action", "Supported actions"), 0)
        ELSE IF name = "generate_image" THEN GenerateImageOpenAI(payload, prov)
        ELSE IF name = "compile_bones" THEN CompileBonesOpenAI(payload, prov)
        ELSE IF name = "apply_iteration" THEN ApplyIterationOpenAI(payload, prov)
        ELSE ChatOpenAI(payload, prov)

-----------------------------------------------------------------------------
(* src/unnamed/part_009: the gateway handler                               *)

\* describeError(e): the text the handler puts in `details`
\* err.status of a provider error, "" when the error carries none
ErrorStatus(message) == IF message = "quota exceeded" THEN "429" ELSE ""

describeError(prov) ==
    IF ErrorStatus(prov.error) # ""
    THEN "status " \o ErrorStatus(prov.error) \o ": " \o prov.error
    ELSE prov.error

NormaliseChatGateway(outputText) ==
    LET raw == TrimText(outputText)
        extracted == extractJsonObject(raw)
        jsonText == IF extracted = NoText THEN raw ELSE extracted
        parsed == JsonParse(jsonText)
    IN  IF ~parsed.ok THEN ok([text |-> raw, toolCalls |-> <<>>])
        ELSE IF ~isRecord(parsed.value) THEN ok([text |-> raw, toolCalls |-> <<>>])
        ELSE ok([text |-> IF Get(parsed.value, "text").t = "str"
                          THEN Get(parsed.value, "text").chars ELSE raw,
                 toolCalls |-> sanitiseToolCalls(Get(parsed.value, "toolCalls"))])

\* lines 194-206, 250-262: JSON.parse throws into the catch of the provider call
NormaliseElementsGateway(outputText) ==
    LET raw == TrimText(outputText)
        extracted == extractJsonObject(raw)
        jsonText == IF extracted = NoText THEN raw ELSE extracted
        parsed == JsonParse(jsonText)
    IN  IF ~parsed.ok THEN serverErrorDetails("AI generation failed", "SyntaxError")
        ELSE IF ~isRecord(parsed.value) \/ ~Has(parsed.value, "elements")
             THEN serverError("Model returned invalid structure")
        ELSE ok([elements |-> Get(parsed.value, "elements")])

GenerateImageGateway(payload, prov) ==
    LET prompt == asString(Get(payload, "prompt"))
    IN  IF ~isRecord(payload) THEN Outcome(badRequest("Invalid payload"), 0)
        ELSE IF ~Truthy(prompt) \/ TrimmedLength(prompt) = 0
             THEN Outcome(badRequest("prompt must be a non-empty string"), 0)
        ELSE IF Length(prompt) > MAX_MESSAGE_CHARS
             THEN Outcome(badRequest("prompt too long"), 0)
        ELSE IF prov.fails
             THEN Outcome(serverErrorDetails("Image generation failed", describeError(prov)), 1)
        ELSE IF ~prov.image
             THEN Outcome(serverErrorDetails("Image generation failed", "No image data returned"), 1)
        ELSE Outcome(ok([imageUri |-> "data:image/png;base64"]), 1)

\* JSON.stringify(x ?? null).length
NullishJsonLength(v) == IF v.t = "undefined" THEN 4 ELSE JsonLength(v)

CompileBonesGateway(payload, prov) ==
    IF ~isRecord(payload) THEN Outcome(badRequest("Invalid payload"), 0)
    ELSE IF NullishJsonLength(Get(payload, "brief")) = 0
         THEN Outcome(badRequest("brief is required"), 0)
    ELSE IF NullishJsonLength(Get(payload, "brief")) > MAX_BRIEF_JSON_CHARS
         THEN Outcome(badRequest("brief too large"), 0)
    ELSE IF prov.fails
         THEN Outcome(serverErrorDetails("AI generation failed", describeError(prov)), 1)
    ELSE Outcome(NormaliseElementsGateway(prov.text), 1)

ApplyIterationGateway(payload, prov) ==
    LET changeRequest == asString(Get(payload, "changeRequest"))
    IN  IF ~isRecord(payload) THEN Outcome(badRequest("Invalid payload"), 0)
        ELSE IF ~Truthy(changeRequest) \/ TrimmedLength(changeRequest) = 0
             THEN Outcome(badRequest("changeRequest must be a non-empty string"), 0)
        ELSE IF Length(changeRequest) > MAX_CHANGE_REQUEST_CHARS
             THEN Outcome(badRequest("changeRequest too long"), 0)
        ELSE IF NullishJsonLength(Get(payload, "codex")) > MAX_CODEX_JSON_CHARS
             THEN Outcome(badRequest("codex too large"), 0)
        ELSE IF prov.fails
             THEN Outcome(serverErrorDetails("AI generation failed", describeError(prov)), 1)
        ELSE Outcome(NormaliseElementsGateway(prov.text), 1)

ChatGateway(payload, prov) ==
    LET message == asString(Get(payload, "message"))
    IN  IF ~isRecord(payload) THEN Outcome(badRequest("Invalid payload"), 0)
        ELSE IF ~Truthy(message) \/ TrimmedLength(message) = 0
             THEN Outcome(badRequest("message must be a non-empty string"), 0)
        ELSE IF Length(message) > MAX_MESSAGE_CHARS
             THEN Outcome(badRequest("message too long"), 0)
        ELSE IF prov.fails
             THEN Outcome(serverErrorDetails("AI generation failed", describeError(prov)), 1)
        ELSE Outcome(NormaliseChatGateway(prov.text), 1)

HandlerGateway(req, keySet, prov) ==
    LET body == req.body
        action == BodyAction(body)
        payload == BodyPayload(body)
        name == ActionName(action)
    IN  IF ~keySet
        THEN Outcome(serverErrorDetails("Server misconfigured", "OPENAI_API_KEY is not set"), 0)
        ELSE IF req.method # "POST" THEN Outcome(json(405, [error |-> "Method not allowed"]), 0)
        ELSE IF body.t = "unparseable" THEN Outcome(badRequest("Invalid JSON body"), 0)
        \* body.action of a null body throws outside any try: the platform answers 500
        ELSE IF body.t = "null" THEN Outcome(serverError("TypeError"), 0)
        ELSE IF action.t # "str" THEN Outcome(badRequest("Missing or invalid action"), 0)
        ELSE IF name \notin AllowedActions
             THEN Outcome(badRequestDetails("Unsupported action", "Supported"), 0)
        ELSE IF name = "generate_image" THEN GenerateImageGateway(payload, prov)
        ELSE IF name = "compile_bones" THEN CompileBonesGateway(payload, prov)
        ELSE IF name = "apply_iteration" THEN ApplyIterationGateway(payload, prov)
        ELSE ChatGateway(payload, prov)

-----------------------------------------------------------------------------
(* src/api/generate.ts, lines 61-443: the Gemini handler                   *)
(* (src/unnamed/part_008, lines 62-408, is the same handler on the Web     *)
(* Request API)                                                            *)

\* messages of errors the provider call may throw
ProviderErrors == {"quota exceeded", "Missing required parameter"}

\* error.message.includes('Invalid input') || error.message.includes('Missing')
IsValidationMessage(message) ==
    message \in { "Invalid input: missing or empty", "Invalid input: exceeds",
                  "Missing payload", "Missing brief", "Missing required parameter" }

\* the catch block, lines 430-441
CatchGemini(message, calls) ==
    IF IsValidationMessage(message)
    THEN Outcome(json(400, [error |-> "Request could not be processed.", details |-> message]), calls)
    ELSE Outcome(json(500, [error |-> "Request could not be processed."]), calls)

\* validateInput: "" when the text is accepted, the thrown message otherwise
validateInput(text) ==
    IF ~Truthy(text) \/ text.t \notin {"string", "str"} \/ TrimmedLength(text) = 0
    THEN "Invalid input: missing or empty"
    ELSE IF Length(text) > MAX_PROMPT_LENGTH THEN "Invalid input: exceeds"
    ELSE ""

GenerateImageGemini(payload, prov) ==
    IF validateInput(Get(payload, "prompt")) # ""
    THEN CatchGemini(validateInput(Get(payload, "prompt")), 0)
    ELSE IF prov.fails THEN CatchGemini(prov.error, 1)
    ELSE Outcome(ok([result |-> "Image generated successfully",
                     imageUri |-> IF prov.image THEN "data:image/png;base64" ELSE "null"]), 1)

BriefFields == <<"title", "genre", "artStyle", "worldSetting", "coreMechanicVisuals", "keyCharacters">>

\* the first brief field validateInput rejects, 0 when none
RECURSIVE FirstBadBriefField(_, _)
FirstBadBriefField(brief, i) ==
    IF i > Len(BriefFields) THEN 0
    ELSE IF validateInput(Get(brief, BriefFields[i])) # "" THEN i
    ELSE FirstBadBriefField(brief, i + 1)

\* JSON.parse(response.text || "{}") and data.elements || []
ElementsGemini(prov, calls, result) ==
    LET parsed == JsonParse(IF prov.text = <<>> THEN <<"{", "}">> ELSE prov.text)
        elements == Get(parsed.value, "elements")
    IN  IF ~parsed.ok THEN CatchGemini("SyntaxError", calls)
        ELSE IF parsed.value.t = "null" THEN CatchGemini("TypeError", calls)
        ELSE Outcome(ok([result |-> result,
                         elements |-> IF Truthy(elements) THEN elements ELSE Arr(<<>>)]), calls)

CompileBonesGemini(payload, prov) ==
    LET brief == Get(payload, "brief")
        bad == FirstBadBriefField(brief, 1)
    IN  IF ~Truthy(brief) THEN CatchGemini("Missing brief", 0)
        ELSE IF bad # 0 THEN CatchGemini(validateInput(Get(brief, BriefFields[bad])), 0)
        ELSE IF prov.fails THEN CatchGemini(prov.error, 1)
        ELSE ElementsGemini(prov, 1, "Codex compiled successfully")

ApplyIterationGemini(payload, prov) ==
    IF validateInput(Get(payload, "changeRequest")) # ""
    THEN CatchGemini(validateInput(Get(payload, "changeRequest")), 0)
    \* payload.codex.elements of a missing codex throws
    ELSE IF Get(payload, "codex").t \in {"undefined", "null"} THEN CatchGemini("TypeError", 0)
    ELSE IF prov.fails THEN CatchGemini(prov.error, 1)
    ELSE ElementsGemini(prov, 1, "Iteration applied successfully")

\* e.category.toUpperCase() / e.content.substring(0, 100) of the codex summary
SummaryThrows(contextData) ==
    LET elements == Get(Get(contextData, "codex"), "elements")
    IN  /\ Truthy(elements)
        /\ \/ elements.t # "array"
           \/ \E i \in 1..Len(elements.items) :
                \/ Get(elements.items[i], "category").t \notin {"string", "str"}
                \/ Get(elements.items[i], "content").t \notin {"string", "str"}

\* payload.history.slice(-10)
LastItems(items, n) ==
    IF Len(items) > n THEN SubSeq(items, Len(items) - n + 1, Len(items)) ELSE items

HistoryWindowGemini(payload) ==
    IF Get(payload, "history").t = "array"
    THEN LastItems(Get(payload, "history").items, GEMINI_HISTORY_WINDOW)
    ELSE <<>>

\* the first history entry validateInput rejects, 0 when none
RECURSIVE FirstBadHistory(_, _)
FirstBadHistory(history, i) ==
    IF i > Len(history) THEN 0
    ELSE IF validateInput(Get(history[i], "content")) # "" THEN i
    ELSE FirstBadHistory(history, i + 1)

ChatGemini(payload, prov) ==
    LET history == HistoryWindowGemini(payload)
        bad == FirstBadHistory(history, 1)
        pendingToolCalls == [i \in 1..Len(prov.functionCalls) |->
                                ToolCall(Get(prov.functionCalls[i], "name"),
                                         Get(prov.functionCalls[i], "args"))]
    IN  IF validateInput(Get(payload, "message")) # ""
        THEN CatchGemini(validateInput(Get(payload, "message")), 0)
        ELSE IF SummaryThrows(Get(payload, "contextData")) THEN CatchGemini("TypeError", 0)
        ELSE IF bad # 0 THEN CatchGemini(validateInput(Get(history[bad], "content")), 0)
        ELSE IF prov.fails THEN CatchGemini(prov.error, 1)
        ELSE IF Len(prov.functionCalls) > 0
             \* a second sendMessage carries the function responses, line 415
             THEN Outcome(ok([result |-> "text",
                              text |-> IF prov.text = <<>>
                                       THEN <<"I've scheduled that action for you.">>
                                       ELSE prov.text,
                              toolCalls |-> pendingToolCalls]), 2)
        ELSE Outcome(ok([result |-> "text", text |-> prov.text, toolCalls |-> <<>>]), 1)

HandlerGemini(req, keySet, prov) ==
    LET body == IF req.body.t = "undefined" THEN Obj(<<>>) ELSE req.body
        action == BodyAction(body)
        payload == BodyPayload(body)
        name == ActionName(action)
    IN  IF req.method # "POST" THEN Outcome(json(405, [error |-> "Method not allowed"]), 0)
        ELSE IF ~keySet THEN Outcome(json(503, [error |-> "Service unavailable"]), 0)
        ELSE IF body.t = "unparseable" THEN CatchGemini("SyntaxError", 0)
        ELSE IF body.t = "null" THEN CatchGemini("TypeError", 0)
        ELSE IF ~Truthy(payload) THEN CatchGemini("Missing payload", 0)
        ELSE IF name = "generate_image" THEN GenerateImageGemini(payload, prov)
        ELSE IF name = "compile_bones" THEN CompileBonesGemini(payload, prov)
        ELSE IF name = "apply_iteration" THEN ApplyIterationGemini(payload, prov)
        ELSE IF name = "chat" THEN ChatGemini(payload, prov)
        ELSE CatchGemini("Unknown action requested", 0)

-----------------------------------------------------------------------------
(* The prompts the handlers compose: for each JSON blob of the payload the *)
(* length of the text that stands for it and whether it ends in a marker   *)

Section(blob, length, truncated) ==
    [blob |-> blob, length |-> length, truncated |-> truncated, items |-> <<>>]

\* the section of the conversation, with the turns it was built from
HistorySection(section, items) == [section EXCEPT !.items = items]

\* length of `... ("${label}" truncated)`
MarkerLength(label) ==
    18 + (CASE label = "contextData" -> 11 [] label = "history" -> 7 [] OTHER -> 5)

\* src/unnamed/part_008, lines 483-495
safeJsonStringify(value, maxChars, label) ==
    LET length == IF value.t = "undefined" THEN 4 ELSE JsonLength(value)
    IN  IF length > maxChars
        THEN Section(label, maxChars + MarkerLength(label), TRUE)
        ELSE Section(label, length, FALSE)

\* history.slice(-MAX_HISTORY_ITEMS), [] when history is no array
HistoryArr(history) ==
    IF history.t = "array"
    THEN Arr(IF Len(history.items) > MAX_HISTORY_ITEMS
             THEN SubSeq(history.items, Len(history.items) - MAX_HISTORY_ITEMS + 1,
                         Len(history.items))
             ELSE history.items)
    ELSE Arr(<<>>)

\* src/unnamed/part_008: lines 644, 711, 784-814
PromptOpenAI(name, payload) ==
    CASE name = "chat" ->
           <<safeJsonStringify(Get(payload, "contextData"), MAX_CONTEXT_CHARS, "contextData"),
             HistorySection(safeJsonStringify(HistoryArr(Get(payload, "history")),
                                              MAX_CONTEXT_CHARS, "history"),
                            HistoryArr(Get(payload, "history")).items)>>
      [] name = "compile_bones" ->
           <<safeJsonStringify(Get(payload, "brief"), MAX_BRIEF_JSON_CHARS, "brief")>>
      [] name = "apply_iteration" ->
           <<safeJsonStringify(Get(payload, "codex"), MAX_CODEX_JSON_CHARS, "codex")>>
      [] OTHER -> <<>>

\* src/unnamed/part_009: lines 176-182, 225-238, 281-306; the marker of line
\* 284 is "...(truncated)"
PromptGateway(name, payload) ==
    CASE name = "chat" ->
           LET length == NullishJsonLength(Get(payload, "contextData"))
           IN  <<IF length > MAX_CONTEXT_JSON_CHARS
                 THEN Section("contextData", MAX_CONTEXT_JSON_CHARS + 14, TRUE)
                 ELSE Section("contextData", length, FALSE),
                 HistorySection(Section("history",
                                        JsonLength(HistoryArr(Get(payload, "history"))), FALSE),
                                HistoryArr(Get(payload, "history")).items)>>
      [] name = "compile_bones" ->
           <<Section("brief", NullishJsonLength(Get(payload, "brief")), FALSE)>>
      [] name = "apply_iteration" ->
           <<Section("codex", NullishJsonLength(Get(payload, "codex")), FALSE)>>
      [] OTHER -> <<>>

\* `${v}` of a template literal
TemplateLength(v) ==
    CASE v.t \in {"string", "str"} -> Length(v)
      [] v.t = "undefined" -> 9
      [] v.t = "null" -> 4
      [] v.t = "number" -> 1
      [] v.t = "boolean" -> 4
      [] OTHER -> 15

Min(a, b) == IF a < b THEN a ELSE b

\* codexSummary and charSummary of src/api/generate.ts, lines 370-376
RECURSIVE CodexSummaryLength(_, _)
CodexSummaryLength(elements, i) ==
    IF i > Len(elements) THEN 0
    ELSE (IF i > 1 THEN 1 ELSE 0)
         + 1 + TemplateLength(Get(elements[i], "category")) + 2
         + TemplateLength(Get(elements[i], "title")) + 2
         + Min(100, TemplateLength(Get(elements[i], "content"))) + 3
         + CodexSummaryLength(elements, i + 1)

RECURSIVE CharSummaryLength(_, _)
CharSummaryLength(chars, i) ==
    IF i > Len(chars) THEN 0
    ELSE (IF i > 1 THEN 1 ELSE 0)
         + 2 + TemplateLength(Get(chars[i], "name")) + 2
         + TemplateLength(Get(chars[i], "role")) + 3
         + TemplateLength(Get(chars[i], "motivations"))
         + CharSummaryLength(chars, i + 1)

RECURSIVE BriefFieldsLength(_, _)
BriefFieldsLength(brief, i) ==
    IF i > Len(BriefFields) THEN 0
    ELSE TrimmedLength(Get(brief, BriefFields[i])) + BriefFieldsLength(brief, i + 1)

\* src/api/generate.ts: lines 276-286, 326-331, 370-392; nothing is cut
PromptGemini(name, payload) ==
    CASE name = "chat" ->
           LET elements == Get(Get(Get(payload, "contextData"), "codex"), "elements")
               chars == Get(Get(payload, "contextData"), "characters")
           IN  <<Section("contextData",
                         (IF elements.t = "array" THEN CodexSummaryLength(elements.items, 1) ELSE 0)
                         + (IF chars.t = "array" THEN CharSummaryLength(chars.items, 1) ELSE 0),
                         FALSE),
                 HistorySection(Section("history",
                                        JsonLength(Arr(HistoryWindowGemini(payload))), FALSE),
                                HistoryWindowGemini(payload))>>
      [] name = "compile_bones" ->
           <<Section("brief", BriefFieldsLength(Get(payload, "brief"), 1), FALSE)>>
      [] name = "apply_iteration" ->
           <<Section("codex", JsonLength(Get(Get(payload, "codex"), "elements")), FALSE)>>
      [] OTHER -> <<>>

PromptOf(v, req) ==
    LET name == ActionName(BodyAction(req.body))
        payload == BodyPayload(req.body)
    IN  CASE v = "openai" -> PromptOpenAI(name, payload)
          [] v = "gateway" -> PromptGateway(name, payload)
          [] OTHER -> PromptGemini(name, payload)

-----------------------------------------------------------------------------
(* Requests and provider behaviours of the checked universe                *)

Variants == {"gemini", "openai", "gateway"}

\* the required string field of an action, in every shape the validators tell apart
StringFieldValues ==
    { Undefined, JsNull, JsNumber, Text(0, 0), Text(3, 0), Text(5, 5), Text(5, 3),
      Text(MAX_PROMPT_LENGTH, MAX_PROMPT_LENGTH),
      Text(MAX_PROMPT_LENGTH + 1, MAX_PROMPT_LENGTH + 1),
      Text(MAX_CHANGE_REQUEST_CHARS, MAX_CHANGE_REQUEST_CHARS),
      Text(MAX_CHANGE_REQUEST_CHARS + 1, MAX_CHANGE_REQUEST_CHARS + 1),
      Text(MAX_MESSAGE_CHARS, MAX_MESSAGE_CHARS),
      Text(MAX_MESSAGE_CHARS + 1, MAX_MESSAGE_CHARS + 1),
      Text(MAX_MESSAGE_CHARS + 1, 5) }

\* turns of a conversation longer than the window of the client
LongTranscript == 11

Turn(role, content) == Obj(<<Member("role", Str(<<role>>)), Member("content", content)>>)

\* a conversation of n turns, the i-th of i characters
Transcript(n) ==
    Arr([i \in 1..n |-> Turn(IF i % 2 = 1 THEN "user" ELSE "model", Text(i, i))])

HistoryValues ==
    { Undefined, Arr(<<>>), Transcript(LongTranscript), Transcript(MAX_HISTORY_ITEMS + 1),
      Arr(<<Turn("user", Text(5, 5)),
            Turn("model", Text(MAX_CONTEXT_CHARS, MAX_CONTEXT_CHARS))>>),
      Arr(<<Turn("system", Text(5, 5)), Turn("user", Text(5, 5)), Turn("model", Text(5, 5))>>) }

CodexValue(elements) == Obj(<<Member("elements", Arr(elements)), Member("lastUpdated", JsNumber)>>)

\* an element whose content alone is as long as a codex may be
LongElement ==
    Obj(<<Member("id", Str(<<"e2">>)), Member("category", Str(<<"story">>)),
          Member("title", Str(<<"a">>)),
          Member("content", Text(MAX_CODEX_JSON_CHARS, MAX_CODEX_JSON_CHARS))>>)

CodexValues ==
    {Undefined, CodexValue(<<>>), CodexValue(<<Element("e1", "premise")>>),
     CodexValue(<<LongElement>>)}

\* a context of one member "notes": its JSON is 12 characters longer than the note
NotesContext(length) == Obj(<<Member("notes", Text(length, length))>>)

ContextValues ==
    { Undefined,
      NotesContext(MAX_CONTEXT_CHARS - 12), NotesContext(MAX_CONTEXT_CHARS - 11),
      Obj(<<Member("codex", CodexValue(<<LongElement>>))>>),
      Obj(<<Member("tasks", Arr(<<>>)), Member("notes", Arr(<<>>)),
            Member("characters", Arr(<<>>)), Member("codex", CodexValue(<<Element("e1", "premise")>>))>>) }

Brief(title, genre) ==
    Obj(<<Member("title", title), Member("genre", genre), Member("artStyle", Text(5, 5)),
          Member("worldSetting", Text(5, 5)), Member("coreMechanicVisuals", Text(5, 5)),
          Member("keyCharacters", Text(5, 5))>>)

\* a brief with a member beyond the six fields, as long as a brief may be
LongBrief ==
    Obj(Brief(Text(5, 5), Text(5, 5)).members
        \o <<Member("notes", Text(MAX_BRIEF_JSON_CHARS, MAX_BRIEF_JSON_CHARS))>>)

BriefValues ==
    { Undefined, JsNull, Brief(Text(5, 5), Text(5, 5)), Brief(Text(5, 5), Text(0, 0)),
      LongBrief,
      Brief(Text(MAX_PROMPT_LENGTH + 1, MAX_PROMPT_LENGTH + 1), Text(5, 5)) }

ChatPayloads ==
    {Obj(<<Member("history", h), Member("message", m), Member("contextData", c)>>) :
        h \in HistoryValues, m \in StringFieldValues, c \in ContextValues}

ApplyIterationPayloads ==
    {Obj(<<Member("codex", c), Member("changeRequest", r)>>) :
        c \in CodexValues, r \in StringFieldValues}

GenerateImagePayloads ==
    {Obj(<<Member("prompt", p), Member("aspectRatio", Str(<<"3:4">>))>>) : p \in StringFieldValues}

CompileBonesPayloads == {Obj(<<Member("brief", b)>>) : b \in BriefValues}

OddPayloads == {Undefined, JsNull, JsNumber, Arr(<<>>), Obj(<<>>)}

Body(action, payload) == Obj(<<Member("action", action), Member("payload", payload)>>)

Bodies ==
    {Unparseable, JsNull, JsNumber}
    \cup {Body(Str(<<"chat">>), p) : p \in ChatPayloads \cup OddPayloads}
    \cup {Body(Str(<<"apply_iteration">>), p) : p \in ApplyIterationPayloads \cup OddPayloads}
    \cup {Body(Str(<<"generate_image">>), p) : p \in GenerateImagePayloads \cup OddPayloads}
    \cup {Body(Str(<<"compile_bones">>), p) : p \in CompileBonesPayloads \cup OddPayloads}
    \cup {Body(a, p) : a \in {Str(<<"drop_tables">>), Str(<<>>), JsNumber, Undefined},
                       p \in OddPayloads}

Requests == {[method |-> m, body |-> b] : m \in {"POST", "GET"}, b \in Bodies}

ValidChatRequest ==
    [method |-> "POST",
     body |-> Body(Str(<<"chat">>),
                   Obj(<<Member("history", Arr(<<>>)), Member("message", Text(5, 5)),
                         Member("contextData", Undefined)>>))]

Provider(fails, error, output, image, functionCalls) ==
    [fails |-> fails, error |-> error, text |-> output.text, object |-> output.object,
     before |-> output.before, after |-> output.after, image |-> image,
     functionCalls |-> functionCalls]

GoodOutput == Output(<<>>, ChatObject(Str(<<"a">>), Arr(<<AddTaskCall>>)), <<>>)

\* provider behaviours tried on every request
BasicProviders ==
    { Provider(FALSE, "", GoodOutput, TRUE, <<>>),
      Provider(FALSE, "", Output(<<>>, Obj(<<Member("elements", Arr(<<>>))>>), <<>>), FALSE, <<>>) }
    \cup {Provider(TRUE, e, GoodOutput, FALSE, <<>>) : e \in ProviderErrors}

\* provider answers tried on a valid chat request
ChatProviders ==
    {Provider(FALSE, "", o, FALSE, <<>>) : o \in ProviderOutputs}
    \cup {Provider(FALSE, "", Output(<<>>, Undefined, t), FALSE, calls) :
            t \in {<<>>, <<"a">>},
            calls \in {<<AddTaskCall>>, <<DropDatabaseCall, AddTaskCall>>}}

-----------------------------------------------------------------------------
(* The React client: values held in the state of App                       *)

Services == {"api", "direct"}

ProjectBrief(title, genre) ==
    [title |-> title, genre |-> genre, artStyle |-> "", worldSetting |-> "",
     coreMechanicVisuals |-> "", keyCharacters |-> ""]

EmptyBrief == ProjectBrief("", "")

\* elements is the list when isArray; a non-array value has isArray FALSE
GameCodex(elements, isArray, lastUpdated) ==
    [elements |-> elements, isArray |-> isArray, lastUpdated |-> lastUpdated]

EmptyCodex == GameCodex(<<>>, TRUE, 0)

GameIteration(id, timestamp, changeDescription, snapshot) ==
    [id |-> id, timestamp |-> timestamp, changeDescription |-> changeDescription,
     codex |-> snapshot]

\* turn and failed are history fields: the chat turn a message belongs to and
\* whether sendMessageToGemini caught an error in that turn
ChatMessage(role, content, turn, failed) ==
    [role |-> role, content |-> content, turn |-> turn, failed |-> failed]

SystemGreeting == ChatMessage("system", "greeting", 0, FALSE)

ClientStart ==
    /\ projectBrief = EmptyBrief
    /\ codex = EmptyCodex
    /\ iterations = <<>>
    /\ tasks = <<>>
    /\ storyNotes = <<>>
    /\ characters = <<>>
    /\ messages = <<SystemGreeting>>
    /\ isProcessing = FALSE
    /\ generatingCharId = <<>>
    /\ pending = {}
    /\ now = 1
    /\ opCount = 0
    /\ crashed = FALSE
    /\ executed = <<>>

-----------------------------------------------------------------------------
(* The handlers as a state machine: one request, one response              *)

ApiInit ==
    /\ service = "api"
    /\ ClientStart
    /\ response = NoResponse
    /\ providerCalls = 0
    /\ sent = <<>>
    /\ \/ /\ variant \in Variants
          /\ apiKeySet \in BOOLEAN
          /\ request \in Requests
          /\ provider \in BasicProviders
       \/ /\ variant \in Variants
          /\ apiKeySet = TRUE
          /\ request = ValidChatRequest
          /\ provider \in ChatProviders

Respond(outcome) ==
    /\ response = NoResponse
    /\ response' = outcome.response
    /\ providerCalls' = outcome.calls
    /\ sent' = IF outcome.calls > 0 THEN PromptOf(variant, request) ELSE <<>>
    /\ UNCHANGED <<variant, apiKeySet, request, provider>>
    /\ UNCHANGED clientVars

HandleGemini == variant = "gemini" /\ Respond(HandlerGemini(request, apiKeySet, provider))

HandleOpenAI == variant = "openai" /\ Respond(HandlerOpenAI(request, apiKeySet, provider))

HandleGateway == variant = "gateway" /\ Respond(HandlerGateway(request, apiKeySet, provider))

ApiNext == HandleGemini \/ HandleOpenAI \/ HandleGateway

ApiSpec == ApiInit /\ [][ApiNext]_vars

-----------------------------------------------------------------------------
(* Properties of the handlers                                              *)

Answered == response # NoResponse

\* a POST with the API key configured, answered
Served == Answered /\ request.method = "POST" /\ apiKeySet

RequestAction == ActionName(BodyAction(request.body))
RequestPayload == BodyPayload(request.body)

RequiredField ==
    CASE RequestAction = "chat" -> "message"
      [] RequestAction = "apply_iteration" -> "changeRequest"
      [] OTHER -> "prompt"

\* the configured maximum length of the required string field
FieldMaximum ==
    CASE variant = "gemini" -> MAX_PROMPT_LENGTH
      [] RequestAction = "apply_iteration" -> MAX_CHANGE_REQUEST_CHARS
      [] OTHER -> MAX_MESSAGE_CHARS

InvalidStringField(v, max) ==
    \/ v.t # "string"
    \/ v.len = 0
    \/ v.tlen = 0
    \/ v.len > max

\* C2: a request whose required string field (chat message, apply_iteration
\* changeRequest, generate_image prompt) is missing, not a string, empty,
\* whitespace-only or longer than the field's maximum is answered 400 with an
\* error body, and the provider is never invoked.
C2_InvalidStringFieldRejected ==
    ( /\ Served
      /\ request.body.t = "object"
      /\ RequestAction \in {"chat", "apply_iteration", "generate_image"}
      /\ InvalidStringField(Get(RequestPayload, RequiredField), FieldMaximum) )
    => ( /\ response.status = 400
         /\ "error" \in DOMAIN response.body
         /\ providerCalls = 0 )

\* C3: a POST (API key configured) whose action is a string outside the four
\* actions is answered 400 by every handler variant, with no provider call.
C3_UnknownActionRejected ==
    ( /\ Served
      /\ request.body.t = "object"
      /\ BodyAction(request.body).t = "str"
      /\ RequestAction \notin AllowedActions )
    => (response.status = 400 /\ providerCalls = 0)

KnownTools ==
    {Str(<<"generate_image">>), Str(<<"add_task">>), Str(<<"add_story_note">>),
     Str(<<"add_character">>)}

\* C4: no tool call whose name is outside the four known tools is returned to
\* the client; of the list add_task, drop_database (empty args), {badshape}
\* exactly the add_task entry survives.
C4_ToolAllowList ==
    (Answered /\ response.status = 200 /\ "toolCalls" \in DOMAIN response.body)
    => ( /\ \A i \in 1..Len(response.body.toolCalls) :
                Get(response.body.toolCalls[i], "name") \in KnownTools
         /\ ( /\ variant \in {"openai", "gateway"}
              /\ Get(provider.object, "toolCalls") = Arr(<<AddTaskCall, DropDatabaseCall, BadShape>>) )
            => response.body.toolCalls = <<AddTaskCall>> )

\* a valid chat request whose provider call returned, on a handler that
\* normalises JSON output
ChatNormalised ==
    /\ Served
    /\ variant \in {"openai", "gateway"}
    /\ request = ValidChatRequest
    /\ ~provider.fails

ReturnsObject(object) ==
    /\ response.status = 200
    /\ response.body.text = Get(object, "text").chars
    /\ response.body.toolCalls = sanitiseToolCalls(Get(object, "toolCalls"))

\* C9: when the chat output is a JSON object wrapped in extra prose, the
\* chat handler returns 200 with that object's text and sanitised toolCalls.
C9_ProseWrappedJsonRecovered ==
    ( /\ ChatNormalised
      /\ provider.object \in TextObjects
      /\ (TrimText(provider.before) # <<>> \/ TrimText(provider.after) # <<>>) )
    => ReturnsObject(provider.object)

\* C10: whenever the chat output is itself a valid JSON object, the chat
\* handler returns that object's text and sanitised toolCalls, whatever
\* characters (braces included) its string values contain.
C10_DirectParseFirst ==
    ( /\ ChatNormalised
      /\ provider.object \in TextObjects \cup ToolObjects
      /\ TrimText(provider.before) = <<>>
      /\ TrimText(provider.after) = <<>> )
    => ReturnsObject(provider.object)

ParsesAsObject(text) ==
    /\ text # NoText
    /\ JsonParse(text).ok
    /\ isRecord(JsonParse(text).value)

\* C11: when neither the chat output (as the handler holds it, trimmed) nor
\* the brace-balanced substring extracted from it parses as a JSON object,
\* the chat handler answers 200 with the whole output as text and an empty
\* toolCalls list.
C11_UnparseableFallsBack ==
    ( /\ ChatNormalised
      /\ ~ParsesAsObject(TrimText(provider.text))
      /\ ~ParsesAsObject(extractJsonObject(TrimText(provider.text))) )
    => /\ response.status = 200
       /\ response.body.text = TrimText(provider.text)
       /\ response.body.toolCalls = <<>>

\* an output whose extracted substring {a} is not JSON came back as plain text
C11_PlainTextAnswered ==
    /\ ChatNormalised
    /\ provider.object = Undefined
    /\ extractJsonObject(TrimText(provider.text)) = <<"{", "a", "}">>
    /\ response.status = 200
    /\ response.body.text = provider.text
    /\ response.body.toolCalls = <<>>

\* what the chat handler hands to JSON.parse, and what comes out of it
ChatJsonText ==
    LET raw == TrimText(provider.text)
        extracted == extractJsonObject(raw)
    IN  IF extracted = NoText THEN raw ELSE extracted

\* the chat output parsed to an object, whose toolCalls member is sanitised
ToolCallsSanitised == ChatNormalised /\ ParsesAsObject(ChatJsonText)

SanitiserInput == Get(JsonParse(ChatJsonText).value, "toolCalls")

ValidEntry(t) ==
    /\ t.t = "object"
    /\ Get(t, "name").t = "str"
    /\ Get(t, "name").chars # <<>>
    /\ Get(t, "args").t = "object"

ReducedEntry(t) == Obj(<<Member("name", Get(t, "name")), Member("args", Get(t, "args"))>>)

ValidSubsequence(x) ==
    IF x.t # "array" THEN <<>>
    ELSE LET valid == SelectSeq(x.items, ValidEntry)
         IN  [i \in 1..Len(valid) |-> ReducedEntry(valid[i])]

\* C12: sanitiseToolCalls returns exactly the subsequence, in input order, of
\* the entries that are non-array objects with a non-empty string name and a
\* non-array object args, each reduced to {name, args}; a non-array input
\* yields the empty list; a malformed entry never drops a later valid one.
C12_SanitiseKeepsValidSubsequence ==
    ToolCallsSanitised =>
        /\ response.status = 200
        /\ response.body.toolCalls = ValidSubsequence(SanitiserInput)
        /\ sanitiseToolCalls(SanitiserInput) = ValidSubsequence(SanitiserInput)

\* a malformed entry, then a valid one, then one with extra members: the two
\* valid entries came back in order, the last reduced to name and args
C12_ValidAfterMalformedKept ==
    /\ ToolCallsSanitised
    /\ SanitiserInput = Arr(<<BadShape, AddTaskCall, ExtraFieldsCall>>)
    /\ response.body.toolCalls =
           <<AddTaskCall, ToolCall(Str(<<"add_story_note">>), EmptyArgs)>>

\* C13: tool-call sanitisation is idempotent: sanitising the sanitised list
\* gives the sanitised list.
C13_SanitiseIdempotent ==
    ToolCallsSanitised =>
        /\ sanitiseToolCalls(Arr(sanitiseToolCalls(SanitiserInput)))
              = sanitiseToolCalls(SanitiserInput)
        /\ sanitiseToolCalls(Arr(response.body.toolCalls)) = response.body.toolCalls

\* a list of three entries of which the sanitiser kept all
C13_SanitisedTwice ==
    /\ ToolCallsSanitised
    /\ SanitiserInput = Arr(<<AddTaskCall, DropDatabaseCall, AddTaskCall>>)
    /\ Len(response.body.toolCalls) = MaxToolCalls
    /\ sanitiseToolCalls(Arr(response.body.toolCalls)) = response.body.toolCalls

\* a chat request for which a prompt went to the provider
ChatPrompted == Answered /\ RequestAction = "chat" /\ providerCalls > 0

ContextSection == sent[1]

\* C17: for any contextData whose serialised form is longer than the
\* configured maximum, the context section of the composed chat prompt ends
\* in a truncation marker and its length, marker included, does not exceed
\* that maximum.
C17_ContextWithinBudget ==
    ( /\ ChatPrompted
      /\ NullishJsonLength(Get(RequestPayload, "contextData")) > MAX_CONTEXT_CHARS )
    => /\ ContextSection.truncated
       /\ ContextSection.length <= MAX_CONTEXT_CHARS

\* the aggregate JSON blobs of the request under way, with their maxima
BlobMaximum(blob) ==
    CASE blob = "brief" -> MAX_BRIEF_JSON_CHARS
      [] blob = "codex" -> MAX_CODEX_JSON_CHARS
      [] OTHER -> MAX_CONTEXT_CHARS

RequestBlobs ==
    CASE RequestAction = "chat" -> {"contextData", "history"}
      [] RequestAction = "compile_bones" -> {"brief"}
      [] RequestAction = "apply_iteration" -> {"codex"}
      [] OTHER -> {}

OversizedBlobs ==
    {b \in RequestBlobs : NullishJsonLength(Get(RequestPayload, b)) > BlobMaximum(b)}

SectionOf(blob) == CHOOSE section \in {sent[i] : i \in DOMAIN sent} : section.blob = blob

OversizedField ==
    /\ RequestAction \in {"chat", "apply_iteration", "generate_image"}
    /\ Get(RequestPayload, RequiredField).t = "string"
    /\ Get(RequestPayload, RequiredField).len > FieldMaximum

\* C18: an oversized aggregate JSON blob (brief, codex, contextData or
\* history) of an otherwise valid request never has the request rejected: the
\* blob goes to the provider truncated, with a marker; whereas an oversized
\* free-text field is rejected with 400.
C18_BlobsTruncatedFieldsRejected ==
    /\ ( /\ Served
         /\ isRecord(RequestPayload)
         /\ RequestAction \in {"chat", "apply_iteration"}
                => ~InvalidStringField(Get(RequestPayload, RequiredField), FieldMaximum)
         /\ OversizedBlobs # {} )
       => /\ response.status # 400
          /\ providerCalls > 0
          /\ \A b \in OversizedBlobs : SectionOf(b).truncated
    /\ (Served /\ isRecord(RequestPayload) /\ OversizedField)
       => (response.status = 400 /\ providerCalls = 0)

\* the provider was called and the call failed
ProviderFailed == Answered /\ providerCalls > 0 /\ provider.fails

OpaqueMessages ==
    {"AI generation failed", "Image generation failed", "Request could not be processed."}

\* C19: when the provider call fails, whatever the action and the handler
\* variant, the response is a 500 whose body is nothing but a fixed message:
\* it is the same for every provider error, so no text of the error reaches
\* the client.
C19_ProviderErrorOpaque ==
    ProviderFailed =>
        /\ response.status = 500
        /\ DOMAIN response.body = {"error"}
        /\ response.body.error \in OpaqueMessages

\* C20: when the API-key environment variable is unset, every request is
\* answered 503 without any provider call, and the body is a bare error
\* message that does not name the missing credential.
C20_MissingKeyAnswered503 ==
    (Answered /\ ~apiKeySet) =>
        /\ response.status = 503
        /\ providerCalls = 0
        /\ DOMAIN response.body = {"error"}
        /\ response.body.error \in {"Service unavailable", "Server misconfigured"}

\* C21: a response has status 400 only when the request failed validation,
\* that is before any provider call; once the provider has been called the
\* status is 200 or 500, and it is 500 whenever the call failed.
C21_CallerAndServerFaultsApart ==
    Answered =>
        /\ response.status = 400 => providerCalls = 0
        /\ providerCalls > 0 => response.status \in {200, 500}
        /\ ProviderFailed => response.status = 500

\* C22: each request results in at most one call to the provider, and a
\* failed provider call is not retried.
C22_AtMostOneProviderCall ==
    Answered =>
        /\ providerCalls <= 1
        /\ provider.fails => providerCalls <= 1

HistorySent == sent[2].items

SuppliedHistory ==
    IF Get(RequestPayload, "history").t = "array" THEN Get(RequestPayload, "history").items
    ELSE <<>>

\* C23: the chat prompt passed to the provider contains at most the last 10
\* turns of the conversation, in the order of the transcript, whatever the
\* length of the history array the request supplies; the new user message
\* travels apart from that window.
C23_PromptHoldsLastTenTurns ==
    ChatPrompted =>
        /\ Len(HistorySent) <= 10
        /\ HistorySent = SubSeq(SuppliedHistory,
                                Len(SuppliedHistory) - Len(HistorySent) + 1,
                                Len(SuppliedHistory))

\* C24: every 200 response to generate_image carries imageUri as a string
\* of the form data:image/png;base64,<payload>, and when the provider
\* returns no image data the response is an error, never a 200.
C24_ImageAnswerCarriesDataUri ==
    (Answered /\ RequestAction = "generate_image") =>
        /\ response.status = 200 => response.body.imageUri = "data:image/png;base64"
        /\ (providerCalls > 0 /\ ~provider.fails /\ ~provider.image) => response.status # 200

\* a compile_bones request whose payload is an object without a brief
BriefMissing ==
    /\ Served
    /\ RequestAction = "compile_bones"
    /\ isRecord(RequestPayload)
    /\ Get(RequestPayload, "brief").t \in {"undefined", "null"}

\* C26: a compile_bones request whose payload carries no brief (missing or
\* null) is rejected with 400 as "brief is required" / "Missing brief" and
\* the provider is not called.
C26_MissingBriefRejected ==
    BriefMissing =>
        /\ response.status = 400
        /\ providerCalls = 0
        /\ IF "details" \in DOMAIN response.body
           THEN response.body.details = "Missing brief"
           ELSE response.body.error = "brief is required"

\* a chat request whose new message every handler accepts
ValidChatMessage ==
    /\ Served
    /\ RequestAction = "chat"
    /\ isRecord(RequestPayload)
    /\ ~InvalidStringField(Get(RequestPayload, "message"), MAX_PROMPT_LENGTH)

\* C29: a chat request whose new message is valid is never rejected because
\* of the earlier transcript: no content of the history entries (empty,
\* whitespace-only, or longer than the free-text limit) makes the handler
\* return 400 (a 400 sent before any provider call is a rejection of the
\* request).
C29_HistoryNeverRejected ==
    ValidChatMessage => ~(response.status = 400 /\ providerCalls = 0)

-----------------------------------------------------------------------------
(* The React client: service layer and handlers of App                     *)
(*                                                                         *)
(* service "api" is the fetch-based service of src/api-server.js, service  *)
(* "direct" the SDK-based service of src/unnamed/part_006.  An async       *)
(* handler is one action up to its first network await and one action per  *)
(* settled promise; what is chained on microtasks runs within the action.  *)
(* The backend itself is not part of this machine: each settled promise    *)
(* draws its outcome from the results below.  Ids made from Math.random    *)
(* are taken to be fresh (the operation number).  The active tab is left   *)
(* out: every tab is one click away.                                       *)

MaxOps == 2
MaxTurns == 1
MaxTime == 2

ClientBriefs == {EmptyBrief, ProjectBrief("T", "G")}

GeneratedElement(id, category) ==
    [id |-> id, category |-> category, type |-> "undefined", title |-> "t", content |-> "c"]

ElementLists ==
    { <<>>,
      <<GeneratedElement("e1", "premise")>>,
      <<GeneratedElement("e1", "premise"), GeneratedElement("e2", "undefined")>> }

\* what a generation call comes back with: a failure (network error, non-2xx,
\* unparseable body, provider error), or a parsed body whose "elements" is an
\* array, is missing, or is some other value
GenerationResults ==
    {[ok |-> FALSE, shape |-> "none", elements |-> <<>>]}
    \cup {[ok |-> TRUE, shape |-> "array", elements |-> l] : l \in ElementLists}
    \cup {[ok |-> TRUE, shape |-> sh, elements |-> <<>>] : sh \in {"missing", "other"}}

\* compileGameBones and applyIterationChanges: [threw, codex]
GenerationCodex(svc, result, time) ==
    IF ~result.ok
    THEN [threw |-> TRUE, codex |-> EmptyCodex]
    ELSE [threw |-> FALSE,
          codex |-> CASE result.shape = "array" -> GameCodex(result.elements, TRUE, time)
                      [] result.shape = "missing" /\ svc = "api" -> GameCodex(<<>>, TRUE, time)
                      [] OTHER -> GameCodex(<<>>, FALSE, time)]

compileGameBones(svc, result, time) == GenerationCodex(svc, result, time)

applyIterationChanges(svc, result, time) == GenerationCodex(svc, result, time)

FormattedField(b, field, type, title) ==
    IF b[field] # ""
    THEN <<[id |-> "undefined", category |-> "undefined", type |-> type,
            title |-> title, content |-> b[field]]>>
    ELSE <<>>

formatBriefToCodex(b, time) ==
    GameCodex(FormattedField(b, "title", "title", "Title")
              \o FormattedField(b, "genre", "genre", "Tone & Genre")
              \o FormattedField(b, "artStyle", "art", "Aesthetic")
              \o FormattedField(b, "worldSetting", "world", "Setting")
              \o FormattedField(b, "coreMechanicVisuals", "mechanics", "Core Mechanics")
              \o FormattedField(b, "keyCharacters", "characters", "Key Figures"),
              TRUE, time)

\* an operation awaiting the backend
Operation(n, kind, brief) ==
    [n |-> n, kind |-> kind, brief |-> brief, stage |-> "fetch", text |-> "",
     calls |-> <<>>, k |-> 0, charId |-> <<>>]

\* ---- tool calls of a chat response

ClientToolCall(name, args, status) ==
    [name |-> name, args |-> args, status |-> status, title |-> "Untitled"]

\* args.status "" stands for a call without a status
AddTask(status) ==
    [ClientToolCall("add_task", "object", status) EXCEPT !.title = "Task " \o status]
AddStoryNote == ClientToolCall("add_story_note", "object", "")
AddCharacter == ClientToolCall("add_character", "object", "")
GenerateImage == ClientToolCall("generate_image", "object", "")
DropDatabase == ClientToolCall("drop_database", "object", "")
\* a call without args: reading args.title throws
NoArgs == ClientToolCall("add_task", "undefined", "")

\* the toolCalls of a chat response
ClientToolLists ==
    { <<>>,
      <<AddTask("DONE"), AddTask("IN_PROGRESS"), AddTask("")>>,
      <<GenerateImage, AddTask("bogus")>>,
      <<AddStoryNote, DropDatabase, AddCharacter>>,
      <<AddTask("TODO"), NoArgs, AddStoryNote>> }

\* what the chat call comes back with: a failure, or a parsed body with its
\* text (possibly missing) and toolCalls
ChatResults ==
    {[ok |-> FALSE, text |-> "", calls |-> <<>>],
     [ok |-> TRUE, text |-> "undefined", calls |-> <<>>]}
    \cup {[ok |-> TRUE, text |-> "reply", calls |-> l] : l \in ClientToolLists}

ApiFallback == "I'm having trouble reaching the creative core right now. Please try again in a moment."
DirectFallback == "The mind is too cloudy to respond. Try again."
Fallback(svc) == IF svc = "api" THEN ApiFallback ELSE DirectFallback

\* the entities carry the chat turn and the position of the call that made
\* them (history fields)
ToolState(ts, ns, cs, log) ==
    [tasks |-> ts, storyNotes |-> ns, characters |-> cs, log |-> log,
     k |-> 0, outcome |-> "returned"]

\* one onToolCall invocation: the call and what it gave back, "threw" when it threw
Invocation(n, k, call, result) ==
    [turn |-> n, k |-> k, call |-> call, result |-> result, image |-> "none"]

\* generateImage of the service, given what the backend did ("uri", "null": no
\* image in the response, "error": the call failed): a uri, "null", or "threw"
generateImage(svc, image) ==
    IF image # "error" THEN image
    ELSE IF svc = "api" THEN "null" ELSE "threw"

\* an invocation that awaited generateImage
ImageInvocation(n, k, call, img) ==
    [Invocation(n, k, call, IF img = "threw" THEN "threw" ELSE "image_generated")
        EXCEPT !.image = img]

\* the history entry of a chat response with its toolCalls, before they run
ChatResponse == ClientToolCall("sendMessageToGemini", "object", "")
ResponseReceived(n, calls) ==
    [turn |-> n, k |-> 0, call |-> ChatResponse, result |-> "received",
     image |-> "none", calls |-> calls]

\* the run of handleGenerateCharacterArt in the history
CharacterArt == ClientToolCall("handleGenerateCharacterArt", "object", "")

\* a status taken over as given
TaskStatusAsGiven(status) == status

TaskStatusOf(status) ==
    IF status = "DONE" THEN "DONE" ELSE IF status = "IN_PROGRESS" THEN "IN_PROGRESS" ELSE "TODO"

\* the onToolCall callback of smartSendMessage, up to its first network await:
\* outcome "returned", "threw", or "image" (awaiting generateImage)
onToolCall(n, k, call, st) ==
    LET threw == [st EXCEPT !.outcome = "threw", !.k = k,
                            !.log = Append(@, Invocation(n, k, call, "threw"))]
        returned(result) == [st EXCEPT !.outcome = "returned", !.k = k,
                                       !.log = Append(@, Invocation(n, k, call, result))]
    IN  CASE call.name = "generate_image" ->
               IF call.args = "undefined" THEN threw
               ELSE [st EXCEPT !.outcome = "image", !.k = k]
          [] call.name = "add_task" ->
               IF call.args = "undefined" THEN threw
               ELSE [returned("task_added") EXCEPT
                        !.tasks = Append(@, [title |-> call.title,
                                             status |-> TaskStatusOf(call.status),
                                             turn |-> n, k |-> k])]
          [] call.name = "add_story_note" ->
               IF call.args = "undefined" THEN threw
               ELSE [returned("note_added") EXCEPT
                        !.storyNotes = Append(@, [turn |-> n, k |-> k])]
          [] call.name = "add_character" ->
               IF call.args = "undefined" THEN threw
               ELSE [returned("character_added") EXCEPT
                        !.characters = Append(@, [id |-> <<n, k>>, imageUrl |-> "",
                                                  turn |-> n, k |-> k])]
          [] OTHER -> returned("Unknown tool")

\* a loop that does not await the image before going on
RECURSIVE RunToolsNoAwait(_, _, _, _)
RunToolsNoAwait(n, calls, k, st) ==
    IF k > Len(calls)
    THEN [st EXCEPT !.outcome = "done", !.k = k]
    ELSE LET after == onToolCall(n, k, calls[k], st)
         IN  IF after.outcome = "threw" THEN after
             ELSE IF after.outcome = "image"
             THEN [RunToolsNoAwait(n, calls, k + 1, after) EXCEPT !.outcome = "image", !.k = k]
             ELSE RunToolsNoAwait(n, calls, k + 1, after)

\* a loop that ends at the first call that reports an error
RECURSIVE RunToolsUntilError(_, _, _, _)
RunToolsUntilError(n, calls, k, st) ==
    IF k > Len(calls)
    THEN [st EXCEPT !.outcome = "done", !.k = k]
    ELSE LET after == onToolCall(n, k, calls[k], st)
         IN  IF after.outcome # "returned" THEN after
             ELSE IF after.log[Len(after.log)].result = "Unknown tool"
             THEN [after EXCEPT !.outcome = "done", !.k = k + 1]
             ELSE RunToolsUntilError(n, calls, k + 1, after)

\* the loop "for (const tool of toolCalls) await onToolCall(...)" from call k
\* on, up to the next network await: outcome "done", "threw" or "image"
RECURSIVE RunTools(_, _, _, _)
RunTools(n, calls, k, st) ==
    IF k > Len(calls)
    THEN [st EXCEPT !.outcome = "done", !.k = k]
    ELSE LET after == onToolCall(n, k, calls[k], st)
         IN  IF after.outcome = "returned"
             THEN RunTools(n, calls, k + 1, after)
             ELSE after

\* ---- handlers

Started(op) ==
    /\ pending' = pending \cup {op}
    /\ opCount' = op.n

handleCompileBones ==
    /\ ~crashed
    /\ ~isProcessing
    /\ projectBrief.title # ""
    /\ opCount < MaxOps
    /\ isProcessing' = TRUE
    /\ Started(Operation(opCount + 1, "compile_bones", projectBrief))
    /\ UNCHANGED <<service, projectBrief, codex, iterations, tasks, storyNotes,
                   characters, messages, now, crashed,
                   generatingCharId, executed>>
    /\ UNCHANGED apiVars

CompileBonesSettles(op, result) ==
    /\ ~crashed
    /\ op \in pending
    /\ op.kind = "compile_bones"
    /\ LET compiled == compileGameBones(service, result, now)
       IN  IF compiled.threw
           THEN UNCHANGED <<codex, iterations, crashed>>
           ELSE /\ codex' = compiled.codex
                /\ iterations' = <<GameIteration(op.n, now, "Initial creative synthesis.",
                                                 compiled.codex)>>
                /\ crashed' = ~compiled.codex.isArray
    /\ isProcessing' = FALSE
    /\ pending' = pending \ {op}
    /\ UNCHANGED <<service, projectBrief, tasks, storyNotes, characters, messages,
                   now, opCount,
                   generatingCharId, executed>>
    /\ UNCHANGED apiVars

handleSendBriefToLibrary(b) ==
    /\ ~crashed
    /\ opCount < MaxOps
    /\ isProcessing' = TRUE
    /\ Started(Operation(opCount + 1, "send_to_library", b))
    /\ UNCHANGED <<service, projectBrief, codex, iterations, tasks, storyNotes,
                   characters, messages, now, crashed,
                   generatingCharId, executed>>
    /\ UNCHANGED apiVars

SendBriefToLibrarySettles(op, result) ==
    /\ ~crashed
    /\ op \in pending
    /\ op.kind = "send_to_library"
    /\ LET compiled == compileGameBones(service, result, now)
       IN  IF compiled.threw
           THEN /\ codex' = formatBriefToCodex(op.brief, now)
                /\ crashed' = crashed
           ELSE /\ codex' = compiled.codex
                /\ crashed' = ~compiled.codex.isArray
    /\ isProcessing' = FALSE
    /\ pending' = pending \ {op}
    /\ UNCHANGED <<service, projectBrief, iterations, tasks, storyNotes, characters,
                   messages, now, opCount,
                   generatingCharId, executed>>
    /\ UNCHANGED apiVars

handleApplyIteration(changeRequest) ==
    /\ ~crashed
    /\ ~isProcessing
    /\ opCount < MaxOps
    /\ isProcessing' = TRUE
    /\ Started([Operation(opCount + 1, "apply_iteration", EmptyBrief) EXCEPT !.text = changeRequest])
    /\ UNCHANGED <<service, projectBrief, codex, iterations, tasks, storyNotes,
                   characters, messages, now, crashed,
                   generatingCharId, executed>>
    /\ UNCHANGED apiVars

ApplyIterationSettles(op, result) ==
    /\ ~crashed
    /\ op \in pending
    /\ op.kind = "apply_iteration"
    /\ LET updated == applyIterationChanges(service, result, now)
       IN  IF updated.threw
           THEN UNCHANGED <<codex, iterations, crashed>>
           ELSE /\ codex' = updated.codex
                /\ iterations' = Append(iterations,
                                        GameIteration(op.n, now, op.text, updated.codex))
                /\ crashed' = ~updated.codex.isArray
    /\ isProcessing' = FALSE
    /\ pending' = pending \ {op}
    /\ UNCHANGED <<service, projectBrief, tasks, storyNotes, characters, messages,
                   now, opCount,
                   generatingCharId, executed>>
    /\ UNCHANGED apiVars

handleRemoveCodexElement(id) ==
    /\ ~crashed
    /\ codex' = [codex EXCEPT !.elements = SelectSeq(@, LAMBDA el : el.id # id),
                              !.lastUpdated = now]
    /\ UNCHANGED <<service, projectBrief, iterations, tasks, storyNotes, characters,
                   messages, isProcessing, pending, now, opCount, crashed,
                   generatingCharId, executed>>
    /\ UNCHANGED apiVars

\* a lookup that lands on the newest entry whatever id is asked for
findNewest(iters, id) ==
    IF \E i \in DOMAIN iters : iters[i].id = id THEN Len(iters) ELSE 0

\* Array.prototype.find: the index of the first iteration with that id, 0 if none
find(iters, id) ==
    LET hits == {i \in DOMAIN iters : iters[i].id = id}
    IN  IF hits = {} THEN 0 ELSE CHOOSE i \in hits : \A j \in hits : i <= j

handleRevert(id) ==
    /\ ~crashed
    /\ find(iterations, id) # 0
    /\ codex' = iterations[find(iterations, id)].codex
    /\ UNCHANGED <<service, projectBrief, iterations, tasks, storyNotes, characters,
                   messages, isProcessing, pending, now, opCount, crashed,
                   generatingCharId, executed>>
    /\ UNCHANGED apiVars

\* onUpdateBrief = setProjectBrief
setProjectBrief(b) ==
    /\ ~crashed
    /\ projectBrief' = b
    /\ UNCHANGED <<service, codex, iterations, tasks, storyNotes, characters, messages,
                   isProcessing, pending, now, opCount, crashed,
                   generatingCharId, executed>>
    /\ UNCHANGED apiVars

\* time passes
Tick ==
    /\ now < MaxTime
    /\ now' = now + 1
    /\ UNCHANGED <<service, projectBrief, codex, iterations, tasks, storyNotes,
                   characters, messages, isProcessing, pending, opCount, crashed,
                   generatingCharId, executed>>
    /\ UNCHANGED apiVars

\* ---- the chat turn

\* the codex summary of the direct service, computed before its try block:
\* e.category.toUpperCase() throws on an element without a category
CodexSummaryThrows(cdx) ==
    \E i \in DOMAIN cdx.elements : cdx.elements[i].category = "undefined"

\* smartSendMessage: the model reply is appended, isProcessing is cleared
Reply(op, content, failed) ==
    /\ messages' = Append(messages, ChatMessage("model", content, op.n, failed))
    /\ isProcessing' = FALSE
    /\ pending' = pending \ {op}

\* sendMessageToGemini after the tool loop has run up to its next await; op is
\* the pending operation, turn the same with the response it works on
AfterTools(op, turn, st) ==
    /\ tasks' = st.tasks
    /\ storyNotes' = st.storyNotes
    /\ characters' = st.characters
    /\ executed' = st.log
    /\ CASE st.outcome = "threw" -> Reply(op, Fallback(service), TRUE)
         [] st.outcome = "image" ->
              /\ pending' = (pending \ {op}) \cup {[turn EXCEPT !.stage = "image", !.k = st.k]}
              /\ UNCHANGED <<messages, isProcessing>>
         [] service = "direct" /\ Len(turn.calls) > 0 ->
              /\ pending' = (pending \ {op}) \cup {[turn EXCEPT !.stage = "final", !.k = st.k]}
              /\ UNCHANGED <<messages, isProcessing>>
         [] OTHER -> Reply(op, turn.text, FALSE)

ChatTurns == Cardinality({i \in DOMAIN messages : messages[i].role = "user"})

smartSendMessage(text) ==
    /\ ~crashed
    /\ ~isProcessing
    /\ opCount < MaxOps
    /\ ChatTurns < MaxTurns
    /\ opCount' = opCount + 1
    /\ messages' = Append(messages, ChatMessage("user", text, opCount + 1, FALSE))
    /\ IF service = "direct" /\ CodexSummaryThrows(codex)
       THEN \* thrown outside the try of sendMessageToGemini: caught and logged
            \* by smartSendMessage, whose finally clears isProcessing
            /\ isProcessing' = FALSE
            /\ pending' = pending
       ELSE /\ isProcessing' = TRUE
            /\ pending' = pending \cup {Operation(opCount + 1, "chat", EmptyBrief)}
    /\ UNCHANGED <<service, projectBrief, codex, iterations, tasks, storyNotes,
                   characters, now, crashed,
                   generatingCharId, executed>>
    /\ UNCHANGED apiVars

\* the chat call (callApi('chat'), or the first chat.sendMessage) settles
ChatSettles(op, result) ==
    /\ ~crashed
    /\ op \in pending
    /\ op.kind = "chat"
    /\ op.stage = "fetch"
    /\ IF ~result.ok
       THEN /\ Reply(op, Fallback(service), TRUE)
            /\ UNCHANGED <<tasks, storyNotes, characters, executed>>
       ELSE LET text == IF service = "direct" /\ result.text = "undefined"
                        THEN "" ELSE result.text
                turn == [op EXCEPT !.text = text, !.calls = result.calls]
            IN  AfterTools(op, turn, RunTools(op.n, result.calls, 1,
                                          ToolState(tasks, storyNotes, characters,
                                              Append(executed,
                                                     ResponseReceived(op.n, result.calls)))))
    /\ UNCHANGED <<service, projectBrief, codex, iterations, now, opCount, crashed,
                   generatingCharId>>
    /\ UNCHANGED apiVars

\* generateImage of a generate_image tool call settles: image is "uri", "null"
\* (no image in the response) or "error" (the call failed)
ImageSettles(op, image) ==
    /\ ~crashed
    /\ op \in pending
    /\ op.kind = "chat"
    /\ op.stage = "image"
    /\ LET img == generateImage(service, image)
           log == Append(executed, ImageInvocation(op.n, op.k, op.calls[op.k], img))
       IN  IF img = "threw"
           THEN \* the callback throws into the catch of sendMessageToGemini
                /\ Reply(op, Fallback(service), TRUE)
                /\ executed' = log
                /\ UNCHANGED <<tasks, storyNotes, characters>>
           ELSE AfterTools(op, op,
                    RunTools(op.n, op.calls, op.k + 1,
                             ToolState(tasks, storyNotes, characters, log)))
    /\ UNCHANGED <<service, projectBrief, codex, iterations, now, opCount, crashed,
                   generatingCharId>>
    /\ UNCHANGED apiVars

\* handleGenerateCharacterArt up to the await of generateImage
handleGenerateCharacterArt(charId) ==
    /\ ~crashed
    /\ opCount < MaxOps
    /\ \E i \in DOMAIN characters : characters[i].id = charId
    /\ generatingCharId # charId
    /\ generatingCharId' = charId
    /\ Started([Operation(opCount + 1, "art", EmptyBrief) EXCEPT !.charId = charId])
    /\ UNCHANGED <<service, projectBrief, codex, iterations, tasks, storyNotes,
                   characters, messages, isProcessing, now, crashed, executed>>
    /\ UNCHANGED apiVars

\* generateImage of handleGenerateCharacterArt settles
CharacterArtSettles(op, image) ==
    /\ ~crashed
    /\ op \in pending
    /\ op.kind = "art"
    /\ LET img == generateImage(service, image)
       IN  /\ characters' =
                  IF img \in {"null", "threw"} THEN characters
                  ELSE [i \in DOMAIN characters |->
                           IF characters[i].id = op.charId
                           THEN [characters[i] EXCEPT !.imageUrl = img]
                           ELSE characters[i]]
           /\ executed' = Append(executed, ImageInvocation(op.n, 0, CharacterArt, img))
    /\ generatingCharId' = <<>>
    /\ pending' = pending \ {op}
    /\ UNCHANGED <<service, projectBrief, codex, iterations, tasks, storyNotes,
                   messages, isProcessing, now, opCount, crashed>>
    /\ UNCHANGED apiVars

\* direct service: the second chat.sendMessage (the function responses) settles
FinalSettles(op, result) ==
    /\ ~crashed
    /\ op \in pending
    /\ op.kind = "chat"
    /\ op.stage = "final"
    /\ IF result.ok
       THEN Reply(op, result.text, FALSE)
       ELSE Reply(op, Fallback(service), TRUE)
    /\ UNCHANGED <<service, projectBrief, codex, iterations, tasks, storyNotes,
                   characters, now, opCount, crashed,
                   generatingCharId, executed>>
    /\ UNCHANGED apiVars

FinalResults ==
    {[ok |-> FALSE, text |-> ""], [ok |-> TRUE, text |-> "reply"],
     [ok |-> TRUE, text |-> "undefined"]}

-----------------------------------------------------------------------------
(* The client as a state machine                                           *)

Init ==
    /\ variant = "gateway"
    /\ apiKeySet = TRUE
    /\ request = ValidChatRequest
    /\ provider = Provider(FALSE, "", GoodOutput, FALSE, <<>>)
    /\ response = NoResponse
    /\ providerCalls = 0
    /\ sent = <<>>
    /\ service \in Services
    /\ ClientStart

Next ==
    \/ handleCompileBones
    \/ \E op \in pending, result \in GenerationResults : CompileBonesSettles(op, result)
    \/ \E b \in ClientBriefs : handleSendBriefToLibrary(b)
    \/ \E op \in pending, result \in GenerationResults : SendBriefToLibrarySettles(op, result)
    \/ handleApplyIteration("change")
    \/ \E op \in pending, result \in GenerationResults : ApplyIterationSettles(op, result)
    \/ \E i \in DOMAIN codex.elements : handleRemoveCodexElement(codex.elements[i].id)
    \/ \E i \in DOMAIN iterations : handleRevert(iterations[i].id)
    \/ \E b \in ClientBriefs : setProjectBrief(b)
    \/ smartSendMessage("hi")
    \/ \E op \in pending, result \in ChatResults : ChatSettles(op, result)
    \/ \E op \in pending, image \in {"uri", "null", "error"} : ImageSettles(op, image)
    \/ \E op \in pending, result \in FinalResults : FinalSettles(op, result)
    \/ \E i \in DOMAIN characters : handleGenerateCharacterArt(characters[i].id)
    \/ \E op \in pending, image \in {"uri", "null", "error"} : CharacterArtSettles(op, image)
    \/ Tick

Spec == Init /\ [][Next]_vars

-----------------------------------------------------------------------------
(* Properties of the client                                                *)

GenerationSettles(op, result) ==
    \/ CompileBonesSettles(op, result)
    \/ SendBriefToLibrarySettles(op, result)
    \/ ApplyIterationSettles(op, result)

\* C1: a compile_bones, send-to-library or apply_iteration call that fails
\* or returns an invalid response (no elements array) leaves codex.elements
\* exactly as it was.
C1_FailedGenerationKeepsCodex ==
    [][ \A op \in pending, result \in GenerationResults :
            (result.shape # "array" /\ GenerationSettles(op, result))
            => (codex'.elements = codex.elements /\ codex'.isArray = codex.isArray) ]_vars

\* C5: reverting to a recorded iteration, after any sequence of compile,
\* apply, remove-element and revert operations, makes the codex equal by
\* value to the snapshot stored in that iteration, and leaves the log alone.
C5_RevertRestoresSnapshot ==
    [][ \A i \in DOMAIN iterations :
            handleRevert(iterations[i].id)
            => (codex' = iterations[i].codex /\ iterations' = iterations) ]_vars

\* compile, then a later successful apply, then a revert to the first
\* iteration: once the second iteration is recorded every other write of the
\* codex stamps it no earlier than that iteration, so a codex that equals the
\* first snapshot and is older than the second was put back by handleRevert
C5_Reverted ==
    /\ Len(iterations) = 2
    /\ iterations[1].changeDescription = "Initial creative synthesis."
    /\ codex = iterations[1].codex
    /\ codex.lastUpdated < iterations[2].codex.lastUpdated
    /\ codex.elements # iterations[2].codex.elements

IsPrefix(s, t) == Len(s) <= Len(t) /\ \A i \in DOMAIN s : t[i] = s[i]

\* C6: the iterations log is append-only: every iteration once recorded stays
\* at its position with an unchanged snapshot; entries are only added at the
\* end.
C6_IterationsAppendOnly == [][IsPrefix(iterations, iterations')]_vars

Entities == <<tasks, storyNotes, characters>>

\* C7: within one chat turn the tool calls run one at a time in emitted
\* order: while the handler of call k awaits, nothing a later call of the turn
\* makes exists yet; and what the calls of a turn append to a list is in the
\* list in the order of the calls.
C7_ToolsSequentialInOrder ==
    \A l \in DOMAIN Entities :
        /\ \A op \in pending :
               (op.kind = "chat" /\ op.stage = "image")
               => \A i \in DOMAIN Entities[l] :
                      Entities[l][i].turn = op.n => Entities[l][i].k < op.k
        /\ \A i, j \in DOMAIN Entities[l] :
               (i < j /\ Entities[l][i].turn = Entities[l][j].turn)
               => Entities[l][i].k < Entities[l][j].k

\* a turn whose response was generate_image then add_task has ended: the task
\* of the second call is on the board, made after the image settled
C7_TaskAfterImage ==
    \E i \in DOMAIN tasks, j \in DOMAIN messages :
        /\ tasks[i].k = 2
        /\ tasks[i].status = "TODO"
        /\ messages[j].role = "model"
        /\ messages[j].turn = tasks[i].turn

TurnEnded(n) == \A op \in pending : op.n # n

RepliesTo(i) ==
    {j \in DOMAIN messages :
        j > i /\ messages[j].role = "model" /\ messages[j].turn = messages[i].turn}

\* C8: every chat turn that has ended has put into the transcript the user
\* message followed by exactly one model reply, the fallback string when the
\* backend failed; and with nothing pending isProcessing is false.
C8_TurnEndsWithOneReply ==
    /\ \A i \in DOMAIN messages :
           (messages[i].role = "user" /\ TurnEnded(messages[i].turn))
           => /\ Cardinality(RepliesTo(i)) = 1
              /\ \A j \in RepliesTo(i) :
                     messages[j].failed => messages[j].content = Fallback(service)
    /\ pending = {} => ~isProcessing

\* what the step under way added to the history
NewInvocations == SubSeq(executed', Len(executed) + 1, Len(executed'))

IsAddTaskRun(e) == e.call.name = "add_task" /\ e.call.args = "object"
IsAddStoryNoteRun(e) == e.call.name = "add_story_note" /\ e.call.args = "object"
IsAddCharacterRun(e) == e.call.name = "add_character" /\ e.call.args = "object"

ExpectedStatus(status) ==
    IF status \in {"TODO", "IN_PROGRESS", "DONE"} THEN status ELSE "TODO"

\* C14: every execution of the add_task tool (a call carrying args) appends
\* exactly one task, with the given title and with status args.status when
\* that is TODO, IN_PROGRESS or DONE and TODO for any other or missing value;
\* the tasks there were stay as they are, story notes and characters grow
\* only by what add_story_note and add_character calls of the step add, and
\* the codex is unchanged.
C14_AddTaskAppendsOneTask ==
    [][ LET adds == SelectSeq(NewInvocations, IsAddTaskRun)
        IN  /\ IsPrefix(tasks, tasks')
            /\ Len(tasks') = Len(tasks) + Len(adds)
            /\ \A i \in 1..Len(adds) :
                   /\ adds[i].result = "task_added"
                   /\ tasks'[Len(tasks) + i].title = adds[i].call.title
                   /\ tasks'[Len(tasks) + i].status = ExpectedStatus(adds[i].call.status)
            /\ adds # <<>> =>
                   /\ IsPrefix(storyNotes, storyNotes')
                   /\ Len(storyNotes') =
                         Len(storyNotes) + Len(SelectSeq(NewInvocations, IsAddStoryNoteRun))
                   /\ IsPrefix(characters, characters')
                   /\ Len(characters') =
                         Len(characters) + Len(SelectSeq(NewInvocations, IsAddCharacterRun))
                   /\ codex' = codex
      ]_vars

\* a turn of three add_task calls with status DONE, IN_PROGRESS and none has
\* put three tasks on the board and nothing else
C14_ThreeTasksAdded ==
    /\ Len(tasks) = 3
    /\ Len(SelectSeq(executed, IsAddTaskRun)) = 3
    /\ tasks[1].status = "DONE"
    /\ tasks[2].status = "IN_PROGRESS"
    /\ tasks[3].status = "TODO"
    /\ tasks[3].title = "Task "
    /\ storyNotes = <<>>
    /\ characters = <<>>

ExposedTools == {"generate_image", "add_task", "add_story_note", "add_character"}

\* the toolCalls of the chat response of turn n
CallsIn(log, n) ==
    LET received == SelectSeq(log, LAMBDA e : e.turn = n /\ e.result = "received")
    IN  IF received = <<>> THEN <<>> ELSE received[1].calls

CallsOfTurn(n) == CallsIn(executed, n)

\* call k of turn n has been handed to the executor
InvokedIn(log, awaited, n, k) ==
    \/ \E j \in DOMAIN log : log[j].turn = n /\ log[j].k = k
    \/ \E op \in awaited : op.kind = "chat" /\ op.stage = "image" /\ op.n = n /\ op.k = k

Invoked(n, k) == InvokedIn(executed, pending, n, k)

\* C15: a tool call whose name is none of the four exposed tools makes the
\* executor return {error: 'Unknown tool'} without throwing, nothing is added
\* to tasks, story notes or characters for it, and the call after it in the
\* same chat turn is still handed to the executor.
C15_UnknownToolSkipped ==
    \A i \in DOMAIN executed :
        LET e == executed[i]
        IN  (e.k > 0 /\ e.call.name \notin ExposedTools) =>
                /\ e.result = "Unknown tool"
                /\ \A l \in DOMAIN Entities : \A j \in DOMAIN Entities[l] :
                       ~(Entities[l][j].turn = e.turn /\ Entities[l][j].k = e.k)
                /\ e.k < Len(CallsOfTurn(e.turn)) => Invoked(e.turn, e.k + 1)

\* drop_database came second of three calls: it was answered Unknown tool and
\* the add_character after it made its character
C15_CallAfterUnknownRan ==
    \E i \in DOMAIN executed, j \in DOMAIN characters :
        /\ executed[i].call.name = "drop_database"
        /\ executed[i].result = "Unknown tool"
        /\ Len(CallsOfTurn(executed[i].turn)) = 3
        /\ characters[j].turn = executed[i].turn
        /\ characters[j].k = executed[i].k + 1

ImageFailed(e) == e.image \in {"null", "threw"}

FailedReplyIn(transcript, n) ==
    \E j \in DOMAIN transcript : transcript[j].turn = n /\ transcript[j].failed

\* C16: image-generation failure is non-fatal everywhere: generateImage never
\* throws; after a generate_image tool call whose image failed, the next call
\* of the turn is still handed to the executor and the turn does not end in
\* the fallback reply; and a character-art request whose image failed leaves
\* the characters as they were and clears generatingCharId.
C16_ImageFailureNonFatal ==
    [][ \A i \in DOMAIN NewInvocations :
            LET e == NewInvocations[i]
            IN  /\ e.image # "threw"
                /\ (e.call.name = "generate_image" /\ ImageFailed(e)) =>
                       /\ e.k < Len(CallsIn(executed', e.turn)) =>
                              InvokedIn(executed', pending', e.turn, e.k + 1)
                       /\ ~FailedReplyIn(messages', e.turn)
                /\ (e.call = CharacterArt /\ ImageFailed(e)) =>
                       /\ characters' = characters
                       /\ generatingCharId' = <<>>
      ]_vars

\* the part of C16 about character art alone
C16_FailedArtLeavesCharacters ==
    [][ \A i \in DOMAIN NewInvocations :
            LET e == NewInvocations[i]
            IN  (e.call = CharacterArt /\ ImageFailed(e)) =>
                    /\ characters' = characters
                    /\ generatingCharId' = <<>>
      ]_vars

ElementCategories == {"premise", "mechanic", "story", "visual", "character_arc"}

\* C25: in every reachable client state every element of codex.elements
\* has an id and a category among premise, mechanic, story, visual and
\* character_arc, whichever path produced the codex (compile, iteration,
\* local formatter, revert).
C25_ElementsHaveIdAndCategory ==
    \A i \in DOMAIN codex.elements :
        /\ codex.elements[i].id # "undefined"
        /\ codex.elements[i].category \in ElementCategories

\* the requests that set isProcessing, still awaiting the backend
InFlight ==
    {op \in pending : op.kind \in {"compile_bones", "send_to_library", "apply_iteration", "chat"}}

\* C27: isProcessing is true whenever a compile_bones, send-to-library,
\* apply_iteration or chat request started from the UI is still in flight:
\* the completion of one request never clears the flag while another is
\* outstanding, and no two such requests are in flight at once.
C27_ProcessingWhileInFlight ==
    /\ InFlight # {} => isProcessing
    /\ Cardinality(InFlight) <= 1

\* a sequence without its i-th entry
Without(seq, i) == SubSeq(seq, 1, i - 1) \o SubSeq(seq, i + 1, Len(seq))

\* C28: handleRemoveCodexElement on the id of a displayed element removes
\* exactly that element: the element count decreases by one, all other
\* elements keep their order, and the iterations log is unchanged, for every
\* reachable codex, one produced by the local formatter included.
C28_RemoveTakesOneElement ==
    [][\A i \in DOMAIN codex.elements :
          handleRemoveCodexElement(codex.elements[i].id) =>
              /\ Len(codex'.elements) = Len(codex.elements) - 1
              /\ codex'.elements = Without(codex.elements, i)
              /\ iterations' = iterations]_vars

\* C30: every operation that replaces the codex with a generated result
\* (compile_bones, send-to-library, apply_iteration) also records an
\* iteration whose snapshot equals the new codex, so that the codex can be
\* restored through revert.
C30_GeneratedCodexRecorded ==
    [][\A op \in pending, result \in GenerationResults :
          (~GenerationCodex(service, result, now).threw /\ GenerationSettles(op, result))
          => \E i \in DOMAIN iterations' : iterations'[i].codex = codex']_vars

=============================================================================
